---------------------------- MODULE Spec2Model ----------------------------
(***************************************************************************)
(* Model of upload.py: main() reads accountforecast.html, injects a UTC    *)
(* timestamp, logs in to Neocities and uploads the text, deleting and      *)
(* re-uploading once when the server reports that the file exists.         *)
(* Text is modelled as sequences of one-character strings so that          *)
(* str.replace, the `in` operator and str.strip are computed, not assumed. *)
(***************************************************************************)
EXTENDS Integers, Sequences, FiniteSets

(* ------------------------------ bounds -------------------------------- *)
\* Source texts of the document specification are built from at most this
\* many fragments.
MaxFragments == 2

(* ----------------------- literals of upload.py ------------------------ *)
SOURCE_FILE == <<"a", "c", "c", "o", "u", "n", "t", "f", "o", "r", "e", "c", "a", "s", "t", ".", "h", "t", "m", "l">>
API_KEY_FILE == <<"a", "p", "i", "k", "e", "y">>
\* '</body>'
ClosingBody == <<"<", "/", "b", "o", "d", "y", ">">>
\* '<pre>Updated: '
PreOpen == <<"<", "p", "r", "e", ">", "U", "p", "d", "a", "t", "e", "d", ":", " ">>
\* '</pre>'
PreClose == <<"<", "/", "p", "r", "e", ">">>
\* 'failed to store files'
ConflictMarker == <<"f", "a", "i", "l", "e", "d", " ", "t", "o", " ", "s", "t", "o", "r", "e", " ", "f", "i", "l", "e", "s">>
\* 'https://' and '.neocities.org/'
UrlScheme == <<"h", "t", "t", "p", "s", ":", "/", "/">>
UrlHost == <<".", "n", "e", "o", "c", "i", "t", "i", "e", "s", ".", "o", "r", "g", "/">>
\* argparse default of --destination
DestDefault == <<"i", "n", "d", "e", "x", ".", "h", "t", "m", "l">>
Whitespace == {" ", "\n", "\t", "\r"}

(* --------------------------- input values ----------------------------- *)
\* Values of strftime('%Y-%m-%dT%H:%M:%SZ') for two instants.
Ts1 == <<"2", "0", "2", "4", "-", "0", "1", "-", "0", "1", "T", "0", "0", ":", "0", "0", ":", "0", "0", "Z">>
Ts2 == <<"2", "0", "2", "6", "-", "1", "1", "-", "0", "1", "T", "0", "8", ":", "0", "9", ":", "1", "0", "Z">>
Timestamps == {Ts1, Ts2}

\* '<html><body>hi</body></html>'
ExampleSource == <<"<", "h", "t", "m", "l", ">", "<", "b", "o", "d", "y", ">", "h", "i", "<", "/", "b", "o", "d", "y", ">", "<", "/", "h", "t", "m", "l", ">">>
PlainSource == <<"h", "i">>
TwoBodies == ClosingBody \o <<"x">> \o ClosingBody

\* Pieces of source text: the closing tag, the tag split in two, the tag in
\* upper case, a stray '<' and plain text.
Fragments == { ClosingBody,
    <<"<", "/", "b", "o", "d">>, <<"y", ">">>,
    <<"<", "/", "B", "O", "D", "Y", ">">>,
    <<"<">>, <<"h", "i">> }

RECURSIVE Flatten(_)
Flatten(fs) == IF fs = <<>> THEN <<>> ELSE Head(fs) \o Flatten(Tail(fs))

FragmentSeqs == UNION { [1..n -> Fragments] : n \in 0..MaxFragments }
AllSources == { Flatten(fs) : fs \in FragmentSeqs } \cup {ExampleSource}
FewSources == { ExampleSource, PlainSource, TwoBodies }

SiteA == <<"r", "a", "k", "e", "7", "4">>
SiteB == <<"a", "b">>
DestOther == <<"f", ".", "h", "t", "m", "l">>
Sitenames == {SiteA, SiteB}
Destinations == {DestDefault, DestOther}

\* Error messages the collaborators may carry.
MsgConflict == ConflictMarker
MsgConflictLong == <<"E", "r", "r", ":", " ">> \o ConflictMarker \o <<".">>
MsgNearMiss == <<"f", "a", "i", "l", "e", "d", " ", "t", "o", " ", "s", "t", "o", "r", "e", " ", "f", "i", "l", "e">>
MsgAuth == <<"i", "n", "v", "a", "l", "i", "d", " ", "a", "u", "t", "h">>
MsgIO == <<"r", "e", "s", "e", "t">>
MsgPerm == <<"d", "e", "n", "i", "e", "d">>
MsgUnbound == <<"c", "l", "i", "e", "n", "t">>

(* ------------------------- Python primitives -------------------------- *)
\* s[i:].startswith(pat)
StartsWithAt(s, i, pat) ==
    /\ i + Len(pat) - 1 <= Len(s)
    /\ \A j \in 1..Len(pat) : s[i + j - 1] = pat[j]

\* `pat in s` for a non-empty pat
Contains(s, pat) == \E i \in 1..Len(s) : StartsWithAt(s, i, pat)

\* s.find(pat) + 1, or 0 when pat does not occur
FindFirst(s, pat) ==
    IF Contains(s, pat)
    THEN CHOOSE i \in 1..Len(s) :
            /\ StartsWithAt(s, i, pat)
            /\ \A k \in 1..(i - 1) : ~StartsWithAt(s, k, pat)
    ELSE 0

\* s.count(pat): non-overlapping occurrences, scanning from the left
RECURSIVE CountFrom(_, _, _)
CountFrom(s, i, pat) ==
    IF i > Len(s) THEN 0
    ELSE IF StartsWithAt(s, i, pat) THEN 1 + CountFrom(s, i + Len(pat), pat)
    ELSE CountFrom(s, i + 1, pat)
Count(s, pat) == CountFrom(s, 1, pat)

\* s.replace(old, new, count): the leftmost `count` non-overlapping
\* occurrences are replaced; a negative count replaces all of them.
RECURSIVE ReplaceFrom(_, _, _, _, _)
ReplaceFrom(s, i, old, new, count) ==
    IF i > Len(s) THEN <<>>
    ELSE IF count # 0 /\ StartsWithAt(s, i, old)
         THEN new \o ReplaceFrom(s, i + Len(old), old, new, count - 1)
         ELSE <<s[i]>> \o ReplaceFrom(s, i + 1, old, new, count)
str_replace(s, old, new) == ReplaceFrom(s, 1, old, new, -1)

\* s.strip(): drop leading and trailing whitespace
RECURSIVE lstrip(_)
lstrip(s) == IF s # <<>> /\ Head(s) \in Whitespace THEN lstrip(Tail(s)) ELSE s
RECURSIVE rstrip(_)
rstrip(s) ==
    IF s # <<>> /\ s[Len(s)] \in Whitespace
    THEN rstrip(SubSeq(s, 1, Len(s) - 1)) ELSE s
strip(s) == rstrip(lstrip(s))

\* Optional strings: None, or a str.
None == [some |-> FALSE, val |-> <<>>]
Some(s) == [some |-> TRUE, val |-> s]
\* Python truthiness of an Optional[str]: None and '' are falsy.
Truthy(x) == x.some /\ x.val # <<>>

(* --------------------- pure pieces of main() -------------------------- *)
\* f"<pre>Updated: {timestamp_str}</pre>\n</body>"
timestamp_html(ts) == PreOpen \o ts \o PreClose \o <<"\n">> \o ClosingBody

\* Variant: the appended snippet without its leading newline.
AppendedHtml_NoNewline(ts) == PreOpen \o ts \o PreClose

\* f"\n<pre>Updated: {timestamp_str}</pre>"
AppendedHtml(ts) == <<"\n">> \o PreOpen \o ts \o PreClose

\* Step 3: the content after the timestamp injection.
InjectTimestamp(content, ts) ==
    IF Contains(content, ClosingBody)
    THEN str_replace(content, ClosingBody, timestamp_html(ts))
    ELSE content \o AppendedHtml(ts)

\* Variant: the URL names the local file instead of the destination.
LiveUrl_SourceName(a) == UrlScheme \o a.sitename \o UrlHost \o SOURCE_FILE

\* f"https://{args.sitename}.neocities.org/{args.destination}"
LiveUrl(a) == UrlScheme \o a.sitename \o UrlHost \o a.destination

\* Variant: the key file, when present, is read whatever the environment holds.
ResolveApiKey_FileFirst(env, kf) ==
    IF kf.exists
    THEN [ api_key    |-> IF kf.readable THEN Some(strip(kf.text)) ELSE env,
           key_source |-> "local file",
           opened     |-> TRUE,
           read_error |-> ~kf.readable ]
    ELSE [ api_key    |-> env,
           key_source |-> "environment variable",
           opened     |-> FALSE,
           read_error |-> FALSE ]

\* Step 2 up to the read of the key file: the key, where it came from,
\* whether the key file was opened and whether that read failed.
ResolveApiKey(env, kf) ==
    IF ~Truthy(env) /\ kf.exists
    THEN [ api_key    |-> IF kf.readable THEN Some(strip(kf.text)) ELSE env,
           key_source |-> "local file",
           opened     |-> TRUE,
           read_error |-> ~kf.readable ]
    ELSE [ api_key    |-> env,
           key_source |-> "environment variable",
           opened     |-> FALSE,
           read_error |-> FALSE ]

\* Variant: `if api_key is None:`.
ApiKeyMissing_NoneOnly(k) == ~k.some

\* `if not api_key:` after the resolution
ApiKeyMissing(k) == ~Truthy(k)

(* ---------------------------- exceptions ------------------------------ *)
\* An exception is its class and its message (str(e)).
OK == [cls |-> "ok", msg |-> <<>>]
Err(c, m) == [cls |-> c, msg |-> m]
\* The classes below all derive from Exception; OpFailedError and
\* AuthenticationError are unrelated to each other.
ExceptionClasses ==
    {"OpFailedError", "AuthenticationError", "ConnectionError", "OSError",
     "UnboundLocalError"}
IsInstance(e, c) ==
    \/ e.cls = c
    \/ c = "Exception" /\ e.cls \in ExceptionClasses

\* What a call into the neocities client may raise: either error kind of
\* the library or any other exception, each with any message.
ClientErrors ==
    { Err("OpFailedError", m) : m \in {MsgConflict, MsgConflictLong, MsgNearMiss} }
    \cup { Err("AuthenticationError", m) : m \in {MsgAuth, MsgConflict} }
    \cup { Err("ConnectionError", m) : m \in {MsgIO, MsgConflict} }
ClientResults == {OK} \cup ClientErrors

\* `"failed to store files" in str(e)`
IsConflict(e) == Contains(e.msg, ConflictMarker)

Line(tag, text) == [tag |-> tag, text |-> text]

\* Variant: the conflict test looks at the message before the class.
TryHandler_MessageFirst(e) ==
    IF IsConflict(e)
    THEN [ next |-> "replace_delete", escapes |-> FALSE,
           prints |-> << Line("file_exists", <<>>) >> ]
    ELSE IF IsInstance(e, "OpFailedError")
    THEN [ next |-> "done", escapes |-> FALSE,
           prints |-> << Line("operation_failed", <<>>),
                         Line("server_message", e.msg),
                         Line("traceback", <<>>) >> ]
    ELSE IF IsInstance(e, "AuthenticationError")
    THEN [ next |-> "done", escapes |-> FALSE,
           prints |-> << Line("authentication_failed", <<>>),
                         Line("server_message", e.msg) >> ]
    ELSE [ next |-> "done", escapes |-> FALSE,
           prints |-> << Line("critical_error", <<>>),
                         Line("error_type", <<e.cls>>),
                         Line("error_message", e.msg),
                         Line("traceback", <<>>) >> ]

\* The except clauses of the outer try, tried in order.
TryHandler(e) ==
    IF IsInstance(e, "OpFailedError")
    THEN IF IsConflict(e)
         THEN [ next |-> "replace_delete", escapes |-> FALSE,
                prints |-> << Line("file_exists", <<>>) >> ]
         ELSE [ next |-> "done", escapes |-> FALSE,
                prints |-> << Line("operation_failed", <<>>),
                              Line("server_message", e.msg),
                              Line("traceback", <<>>) >> ]
    ELSE IF IsInstance(e, "AuthenticationError")
    THEN [ next |-> "done", escapes |-> FALSE,
           prints |-> << Line("authentication_failed", <<>>),
                         Line("server_message", e.msg) >> ]
    ELSE IF IsInstance(e, "Exception")
    THEN [ next |-> "done", escapes |-> FALSE,
           prints |-> << Line("critical_error", <<>>),
                         Line("error_type", <<e.cls>>),
                         Line("error_message", e.msg),
                         Line("traceback", <<>>) >> ]
    ELSE [ next |-> "done", escapes |-> TRUE, prints |-> <<>> ]

\* Variant: a conflict inside the replacement starts the replacement again.
ReplaceHandler_Again(e) ==
    IF IsInstance(e, "OpFailedError") /\ IsConflict(e)
    THEN [ next |-> "replace_delete", escapes |-> FALSE,
           prints |-> << Line("file_exists", <<>>) >> ]
    ELSE [ next |-> "done", escapes |-> FALSE,
           prints |-> << Line("failed_to_replace", <<>>),
                         Line("error", e.msg),
                         Line("traceback", <<>>) >> ]

\* `except Exception as replace_e` of the inner try.
ReplaceHandler(e) ==
    IF IsInstance(e, "Exception")
    THEN [ next |-> "done", escapes |-> FALSE,
           prints |-> << Line("failed_to_replace", <<>>),
                         Line("error", e.msg),
                         Line("traceback", <<>>) >> ]
    ELSE [ next |-> "done", escapes |-> TRUE, prints |-> <<>> ]

\* Arguments of the client calls.
UploadPayload(a, content) == [dest |-> a.destination, content |-> content]
DeleteTarget(a) == a.destination
\* Variant: the retry injects a timestamp again.
ReplacePayload_Reinjected(a, content) ==
    [dest |-> a.destination, content |-> InjectTimestamp(content, Ts1)]
ReplacePayload(a, content) == [dest |-> a.destination, content |-> content]

(* ------------------------------ state --------------------------------- *)
VARIABLES
    args,           \* argparse result: sitename, destination
    source_file,    \* accountforecast.html on disk
    env_api_key,    \* os.environ.get('NEOCITIES_API_KEY')
    key_file,       \* the file 'apikey' on disk
    pc,             \* the statement main() executes next
    api_key,        \* local api_key
    key_source,     \* local key_source
    file_content,   \* local file_content
    timestamp_str,  \* local timestamp_str
    client_bound,   \* whether the local `client` has been assigned
    opened,         \* names passed to open(), in order
    calls,          \* calls into the neocities client, in order
    out,            \* lines printed to stdout, in order
    propagated      \* an exception left main()

vars == << args, source_file, env_api_key, key_file, pc, api_key, key_source,
           file_content, timestamp_str, client_bound, opened, calls, out,
           propagated >>
environment == << args, source_file, env_api_key, key_file >>

Absent == [exists |-> FALSE, readable |-> FALSE, text |-> <<>>]
Unreadable == [exists |-> TRUE, readable |-> FALSE, text |-> <<>>]
File(t) == [exists |-> TRUE, readable |-> TRUE, text |-> t]

EnvValues == { None, Some(<<>>), Some(<<" ">>), Some(<<"E", "1">>) }
KeyFiles == { Absent, Unreadable, File(<<>>), File(<<" ", "\n">>),
              File(<<" ", "F", "2", "\n">>) }

Locals ==
    /\ pc = "check_source"
    /\ api_key = None
    /\ key_source = ""
    /\ file_content = <<>>
    /\ timestamp_str = <<>>
    /\ client_bound = FALSE
    /\ opened = <<>>
    /\ calls = <<>>
    /\ out = <<>>
    /\ propagated = FALSE

\* Control-flow specification: every credential configuration, few texts.
Init ==
    /\ args \in [sitename : Sitenames, destination : Destinations]
    /\ source_file \in {Absent, Unreadable} \cup { File(t) : t \in FewSources }
    /\ env_api_key \in EnvValues
    /\ key_file \in KeyFiles
    /\ Locals

\* Document specification: every source text, few credential configurations.
InitDoc ==
    /\ args = [sitename |-> SiteA, destination |-> DestDefault]
    /\ source_file \in {Absent, Unreadable} \cup { File(t) : t \in AllSources }
    /\ \E c \in { << Some(<<"E", "1">>), Absent >>, << None, Unreadable >>,
                  << None, Absent >> } :
          /\ env_api_key = c[1]
          /\ key_file = c[2]
    /\ Locals

(* ----------------------------- actions -------------------------------- *)
Emit(ls) == out' = out \o ls

\* An exception raised inside the outer try block.
RaiseInTry(e) ==
    LET h == TryHandler(e) IN
    /\ pc' = h.next
    /\ Emit(h.prints)
    /\ propagated' = h.escapes

\* An exception raised inside the inner try block.
RaiseInReplace(e) ==
    LET h == ReplaceHandler(e) IN
    /\ pc' = h.next
    /\ Emit(h.prints)
    /\ propagated' = h.escapes

Call(op, key, dest, content, r) ==
    [op |-> op, key |-> key, dest |-> dest, content |-> content, result |-> r]

\* 1. Check for the source file.
CheckSource ==
    /\ pc = "check_source"
    /\ IF ~source_file.exists
       THEN /\ Emit(<< Line("source_not_found", SOURCE_FILE) >>)
            /\ pc' = "done"
       ELSE /\ pc' = "load_key"
            /\ UNCHANGED out
    /\ UNCHANGED << environment, api_key, key_source, file_content,
                    timestamp_str, client_bound, opened, calls, propagated >>

\* 2. Load the API key.
LoadApiKey ==
    /\ pc = "load_key"
    /\ LET r == ResolveApiKey(env_api_key, key_file) IN
       /\ api_key' = r.api_key
       /\ key_source' = r.key_source
       /\ opened' = IF r.opened THEN Append(opened, API_KEY_FILE) ELSE opened
       /\ IF r.read_error
          THEN /\ Emit(<< Line("could_not_read", MsgPerm) >>)
               /\ pc' = "done"
          ELSE IF ApiKeyMissing(r.api_key)
          THEN /\ Emit(<< Line("api_key_not_found", <<>>) >>)
               /\ pc' = "done"
          ELSE /\ Emit(<< Line("loaded_key", <<r.key_source>>) >>)
               /\ pc' = "read_source"
    /\ UNCHANGED << environment, file_content, timestamp_str, client_bound,
                    calls, propagated >>

\* 3a. Read the source file.
ReadSource ==
    /\ pc = "read_source"
    /\ opened' = Append(opened, SOURCE_FILE)
    /\ IF source_file.readable
       THEN /\ file_content' = source_file.text
            /\ Emit(<< Line("reading", SOURCE_FILE) >>)
            /\ pc' = "inject"
            /\ UNCHANGED propagated
       ELSE LET h == TryHandler(Err("OSError", MsgPerm)) IN
            /\ pc' = h.next
            /\ Emit(<< Line("reading", SOURCE_FILE) >> \o h.prints)
            /\ propagated' = h.escapes
            /\ UNCHANGED file_content
    /\ UNCHANGED << environment, api_key, key_source, timestamp_str,
                    client_bound, calls >>

\* 3b. Take the time and inject the timestamp.
Inject ==
    /\ pc = "inject"
    /\ \E ts \in Timestamps :
         /\ timestamp_str' = ts
         /\ file_content' = InjectTimestamp(file_content, ts)
         /\ IF Contains(file_content, ClosingBody)
            THEN Emit(<< Line("injecting", ts) >>)
            ELSE Emit(<< Line("warning_no_body", <<>>) >>)
    /\ pc' = "construct"
    /\ UNCHANGED << environment, api_key, key_source, client_bound, opened,
                    calls, propagated >>

\* client = Neocities()
Construct ==
    /\ pc = "construct"
    /\ \E r \in ClientResults :
         /\ calls' = Append(calls, Call("Neocities", <<>>, <<>>, <<>>, r))
         /\ IF r = OK
            THEN /\ client_bound' = TRUE
                 /\ pc' = "login"
                 /\ UNCHANGED << out, propagated >>
            ELSE /\ RaiseInTry(r)
                 /\ UNCHANGED client_bound
    /\ UNCHANGED << environment, api_key, key_source, file_content,
                    timestamp_str, opened >>

\* client.login(api=api_key)
Login ==
    /\ pc = "login"
    /\ \E r \in ClientResults :
         /\ calls' = Append(calls, Call("login", api_key.val, <<>>, <<>>, r))
         /\ IF r = OK
            THEN /\ pc' = "upload"
                 /\ UNCHANGED << out, propagated >>
            ELSE RaiseInTry(r)
    /\ UNCHANGED << environment, api_key, key_source, file_content,
                    timestamp_str, client_bound, opened >>

\* client.upload_text({args.destination: file_content}) and the success report
Upload ==
    /\ pc = "upload"
    /\ \E r \in ClientResults :
         LET p == UploadPayload(args, file_content)
             uploading == << Line("uploading", args.destination) >> IN
         /\ calls' = Append(calls, Call("upload_text", <<>>, p.dest, p.content, r))
         /\ IF r = OK
            THEN /\ pc' = "done"
                 /\ Emit(uploading \o << Line("upload_successful", <<>>),
                                          Line("view_live", LiveUrl(args)) >>)
                 /\ UNCHANGED propagated
            ELSE LET h == TryHandler(r) IN
                 /\ pc' = h.next
                 /\ Emit(uploading \o h.prints)
                 /\ propagated' = h.escapes
    /\ UNCHANGED << environment, api_key, key_source, file_content,
                    timestamp_str, client_bound, opened >>

\* client.delete(args.destination) in the conflict handler
ReplaceDelete ==
    /\ pc = "replace_delete"
    /\ IF ~client_bound
       THEN /\ RaiseInReplace(Err("UnboundLocalError", MsgUnbound))
            /\ UNCHANGED calls
       ELSE \E r \in ClientResults :
            /\ calls' = Append(calls, Call("delete", <<>>, DeleteTarget(args), <<>>, r))
            /\ IF r = OK
               THEN /\ pc' = "replace_upload"
                    /\ UNCHANGED << out, propagated >>
               ELSE RaiseInReplace(r)
    /\ UNCHANGED << environment, api_key, key_source, file_content,
                    timestamp_str, client_bound, opened >>

\* the retried client.upload_text(...) and the replacement report
ReplaceUpload ==
    /\ pc = "replace_upload"
    /\ \E r \in ClientResults :
         LET p == ReplacePayload(args, file_content) IN
         /\ calls' = Append(calls, Call("upload_text", <<>>, p.dest, p.content, r))
         /\ IF r = OK
            THEN /\ pc' = "done"
                 /\ Emit(<< Line("replacement_successful", <<>>),
                             Line("view_live", LiveUrl(args)) >>)
                 /\ UNCHANGED propagated
            ELSE RaiseInReplace(r)
    /\ UNCHANGED << environment, api_key, key_source, file_content,
                    timestamp_str, client_bound, opened >>

Next ==
    \/ CheckSource
    \/ LoadApiKey
    \/ ReadSource
    \/ Inject
    \/ Construct
    \/ Login
    \/ Upload
    \/ ReplaceDelete
    \/ ReplaceUpload

Spec == Init /\ [][Next]_vars
SpecDoc == InitDoc /\ [][Next]_vars

(* ----------------------- vocabulary of the claims --------------------- *)
Printed(tag) == \E i \in 1..Len(out) : out[i].tag = tag
TimesPrinted(tag) == Cardinality({ i \in 1..Len(out) : out[i].tag = tag })
CallsOf(op) == { i \in 1..Len(calls) : calls[i].op = op }
NetworkCalls == CallsOf("login") \cup CallsOf("upload_text") \cup CallsOf("delete")
Failed(i) == calls[i].result # OK
\* The call raised OpFailedError with the "already exists" marker in its message.
FailedWithMarker(i) ==
    calls[i].result.cls = "OpFailedError" /\ Contains(calls[i].result.msg, ConflictMarker)
Injected == timestamp_str # <<>>
Done == pc = "done"
\* '<pre>Updated: {timestamp}</pre>\n'
Marker(ts) == PreOpen \o ts \o PreClose \o <<"\n">>
FailureTags ==
    {"source_not_found", "could_not_read", "api_key_not_found",
     "authentication_failed", "operation_failed", "failed_to_replace",
     "critical_error"}
SuccessReported == Printed("view_live")

(* ------------------------------- C1 ----------------------------------- *)
\* C1: for a source text that contains '</body>', the Document is the source
\* text with one marker '<pre>Updated: {timestamp}</pre>\n' inserted right
\* before the first '</body>' and nothing else changed, so it holds exactly
\* one marker and later '</body>' stay untouched.
C1_OneMarkerBeforeFirstBody ==
    (Injected /\ Contains(source_file.text, ClosingBody)) =>
        LET src == source_file.text
            i   == FindFirst(src, ClosingBody)
        IN  /\ file_content = SubSeq(src, 1, i - 1) \o Marker(timestamp_str)
                                \o SubSeq(src, i, Len(src))
            /\ Count(file_content, Marker(timestamp_str)) = 1

(* ------------------------------- C2 ----------------------------------- *)
\* C2: a delete call happens only right after an upload_text call that
\* failed with the "already exists" marker; such an upload failure is
\* followed by exactly one delete call and then exactly one retried
\* upload_text call; any other failure is followed by no call at all.
C2_ConflictRecovery ==
    /\ \A i \in CallsOf("delete") :
          /\ i > 1
          /\ calls[i - 1].op = "upload_text"
          /\ FailedWithMarker(i - 1)
    /\ \A i \in 1..Len(calls) :
          (Failed(i) /\ ~(calls[i].op = "upload_text" /\ FailedWithMarker(i)))
             => i = Len(calls)
    /\ Done =>
          \A i \in CallsOf("upload_text") :
             (FailedWithMarker(i) /\ CallsOf("delete") \cap 1..i = {}) =>
                 /\ Len(calls) = i + 2
                 /\ calls[i + 1].op = "delete"
                 /\ calls[i + 2].op = "upload_text"

(* ------------------------------- C3 ----------------------------------- *)
\* C3: the client is constructed and called only when the source file exists
\* and the resolved credential is non-empty; a missing source file ends the
\* run with the source-not-found message, an unset or empty environment
\* variable together with an absent or blank key file ends it with the
\* key-not-found message, and with an unreadable key file it ends with the
\* could-not-read message, each without any client call.
C3_NoCallWithoutSourceAndKey ==
    /\ calls # <<>> => (source_file.exists /\ api_key.some /\ api_key.val # <<>>)
    /\ \A i \in CallsOf("login") : calls[i].key # <<>>
    /\ (Done /\ ~source_file.exists) =>
          (out = << Line("source_not_found", SOURCE_FILE) >> /\ calls = <<>>)
    /\ (Done /\ source_file.exists /\ (~env_api_key.some \/ env_api_key.val = <<>>)) =>
          /\ (~key_file.exists \/ (key_file.readable /\ strip(key_file.text) = <<>>))
                => (out = << Line("api_key_not_found", <<>>) >> /\ calls = <<>>)
          /\ (key_file.exists /\ ~key_file.readable)
                => (out = << Line("could_not_read", MsgPerm) >> /\ calls = <<>>)
    /\ (Printed("source_not_found") \/ Printed("api_key_not_found")
          \/ Printed("could_not_read")) => (Done /\ calls = <<>>)

\* A run that ended with the key-not-found message although a (blank) key
\* file was read.
C3_Witness ==
    /\ Done
    /\ Printed("api_key_not_found")
    /\ key_file.readable /\ key_file.text # <<>>
    /\ env_api_key = Some(<<>>)

(* ------------------------------- C4 ----------------------------------- *)
\* C4 as stated: whenever the environment variable is set and the key file
\* is present, the file is not read and login receives the variable's value.
C4_SetEnvWins ==
    (env_api_key.some /\ key_file.exists) =>
        /\ \A i \in 1..Len(opened) : opened[i] # API_KEY_FILE
        /\ \A i \in CallsOf("login") : calls[i].key = env_api_key.val

\* C4 as amended: whenever the environment variable holds a non-empty value,
\* the key file is not read and login receives exactly that value; the key
\* file is read, and its stripped content passed to login, only when the
\* variable is unset or empty.
C4_NonEmptyEnvWins ==
    /\ (env_api_key.some /\ env_api_key.val # <<>>) =>
          /\ \A i \in 1..Len(opened) : opened[i] # API_KEY_FILE
          /\ \A i \in CallsOf("login") : calls[i].key = env_api_key.val
    /\ (\E i \in 1..Len(opened) : opened[i] = API_KEY_FILE) =>
          (~env_api_key.some \/ env_api_key.val = <<>>)
    /\ (~env_api_key.some \/ env_api_key.val = <<>>) =>
          \A i \in CallsOf("login") : calls[i].key = strip(key_file.text)

\* Both the variable and a usable key file are present and login was called.
C4_Witness ==
    /\ env_api_key.some /\ env_api_key.val # <<>>
    /\ key_file.readable /\ strip(key_file.text) # <<>>
    /\ CallsOf("login") # {}

(* ------------------------------- C5 ----------------------------------- *)
\* C5: no exception leaves main, every finished run has printed something,
\* and after a failed step nothing of the sequence runs any more, except the
\* delete and the single retried upload after an upload conflict.
C5_FailureEndsRun ==
    /\ ~propagated
    /\ Done => out # <<>>
    /\ \A i \in 1..Len(calls) :
          Failed(i) =>
             \/ i = Len(calls)
             \/ /\ calls[i].op = "upload_text"
                /\ FailedWithMarker(i)
                /\ CallsOf("delete") \cap 1..i = {}
                /\ Len(calls) <= i + 2
                /\ calls[i + 1].op = "delete"
                /\ Len(calls) = i + 2 => (~Failed(i + 1) /\ calls[i + 2].op = "upload_text")
    /\ (Printed("critical_error") /\ calls = <<>>) => Done

(* ------------------------------- C6 ----------------------------------- *)
\* C6: a login that fails with AuthenticationError is the last client call of
\* the run, and the run ends with the authentication message and its server
\* message only: no traceback and none of the other failure reports.
C6_AuthFailureTerminal ==
    \A i \in CallsOf("login") :
        calls[i].result.cls = "AuthenticationError" =>
            /\ i = Len(calls)
            /\ Done
            /\ TimesPrinted("authentication_failed") = 1
            /\ out[Len(out)] = Line("server_message", calls[i].result.msg)
            /\ ~Printed("traceback")
            /\ ~Printed("file_exists")
            /\ ~Printed("operation_failed")
            /\ ~Printed("failed_to_replace")
            /\ ~Printed("critical_error")
            /\ ~SuccessReported

\* Login failed with an AuthenticationError whose message holds the marker.
C6_Witness ==
    \E i \in CallsOf("login") :
        /\ calls[i].result.cls = "AuthenticationError"
        /\ Contains(calls[i].result.msg, ConflictMarker)

(* ------------------------------- C7 ----------------------------------- *)
\* C7: a run makes at most one login, two upload_text and one delete call; a
\* failed delete or a failed retried upload, whatever the error, is the last
\* call and ends the run with the failed-to-replace report.
C7_RecoveryAtMostOnce ==
    /\ Cardinality(CallsOf("login")) <= 1
    /\ Cardinality(CallsOf("upload_text")) <= 2
    /\ Cardinality(CallsOf("delete")) <= 1
    /\ \A i \in 1..Len(calls) :
          (Failed(i) /\ (calls[i].op = "delete"
                          \/ (calls[i].op = "upload_text" /\ CallsOf("delete") \cap 1..i # {})))
             => /\ i = Len(calls)
                /\ Done
                /\ TimesPrinted("failed_to_replace") = 1
                /\ ~SuccessReported

\* The retried upload failed with a second "already exists" error.
C7_Witness ==
    /\ Done
    /\ Cardinality(CallsOf("upload_text")) = 2
    /\ FailedWithMarker(Len(calls))
    /\ calls[Len(calls)].op = "upload_text"

(* ------------------------------- C8 ----------------------------------- *)
\* C8: for a source text without '</body>', the Document is the source text
\* followed by '\n<pre>Updated: {timestamp}</pre>'.
C8_AppendWhenNoBody ==
    (Injected /\ ~Contains(source_file.text, ClosingBody)) =>
        file_content = source_file.text \o <<"\n">> \o PreOpen \o timestamp_str \o PreClose

\* A text with an upper-case closing tag but no '</body>' was uploaded.
C8_Witness ==
    /\ Injected
    /\ ~Contains(source_file.text, ClosingBody)
    /\ Contains(source_file.text, <<"<", "/", "B", "O", "D", "Y", ">">>)
    /\ \E i \in CallsOf("upload_text") : calls[i].content = file_content

(* ------------------------------- C9 ----------------------------------- *)
\* C9: the success report with https://{site}.neocities.org/{destination} is
\* printed at most once; a finished run has printed it exactly when its last
\* upload_text call returned without error, and then no failure report was
\* printed.
C9_SuccessIffStored ==
    /\ TimesPrinted("view_live") <= 1
    /\ TimesPrinted("upload_successful") + TimesPrinted("replacement_successful")
          = TimesPrinted("view_live")
    /\ \A i \in 1..Len(out) :
          out[i].tag = "view_live" =>
             out[i].text = UrlScheme \o args.sitename \o UrlHost \o args.destination
    /\ SuccessReported => (Done /\ \A t \in FailureTags : ~Printed(t))
    /\ Done =>
          (SuccessReported <=>
             /\ CallsOf("upload_text") # {}
             /\ \A i \in CallsOf("upload_text") :
                   (\A j \in CallsOf("upload_text") : j <= i) => ~Failed(i))

\* The replacement succeeded and was reported, with a non-default destination.
C9_Witness ==
    /\ Done
    /\ Printed("replacement_successful")
    /\ args.destination # DestDefault

(* ------------------------------- C10 ---------------------------------- *)
\* C10: once injected, file_content is the source text with one injection and
\* never changes; login happens after the injection; every upload_text call,
\* the retried one included, sends args.destination and that same content,
\* and delete names args.destination.
C10_SameDocumentOnRetry ==
    /\ Injected => file_content = InjectTimestamp(source_file.text, timestamp_str)
    /\ CallsOf("login") # {} => Injected
    /\ \A i \in CallsOf("upload_text") :
          /\ calls[i].dest = args.destination
          /\ calls[i].content = InjectTimestamp(source_file.text, timestamp_str)
          /\ \A j \in CallsOf("upload_text") :
                calls[j].dest = calls[i].dest /\ calls[j].content = calls[i].content
    /\ \A i \in CallsOf("delete") : calls[i].dest = args.destination

\* An upload conflict was followed by the delete and the retried upload.
C10_Witness ==
    /\ \E i, j \in CallsOf("upload_text") : i < j /\ FailedWithMarker(i)
    /\ CallsOf("delete") # {}
    /\ Contains(source_file.text, ClosingBody)
=============================================================================
